---------------------------- MODULE Spec2Model ----------------------------
(***************************************************************************)
(* A model of lib/bson.js of mongo-express: the free-text parse wrappers   *)
(* (toBSON, toSafeBSON, parseObjectId), the type classifier, the table of  *)
(* per-type formatters and the stringifiers built on javascript-stringify  *)
(* (toString, toJSString, stringify, toJsonString).                        *)
(*                                                                         *)
(* JavaScript strings are TLA+ strings; a JavaScript value is a record     *)
(* whose field cls is what Object.prototype.toString.call(value) returns.  *)
(* A value that may be undefined is a record [undef, s].                   *)
(***************************************************************************)
EXTENDS Integers, Sequences, FiniteSets, TLC

(***************************************************************************)
(* Bounds of the model.                                                    *)
(***************************************************************************)
\* nesting depth of the documents handed to the stringifiers
MaxDepth == 2
\* number of diagnostics the console keeps
MaxLog == 1

(***************************************************************************)
(* JavaScript helpers.                                                     *)
(***************************************************************************)
Undefined == [undef |-> TRUE, s |-> ""]

Str(s) == [undef |-> FALSE, s |-> s]

\* ToBoolean of a string-or-undefined: undefined and '' are falsy
Truthy(m) == ~m.undef /\ m.s # ""

CharAt(s, i) == SubSeq(s, i, i)

Contains(s, c) == \E i \in 1..Len(s) : CharAt(s, i) = c

Digits == <<"0", "1", "2", "3", "4", "5", "6", "7", "8", "9", "a", "b", "c", "d", "e", "f">>

RECURSIVE NatToString(_, _)
\* Number.prototype.toString(radix) of a non-negative integer
NatToString(n, radix) ==
    IF n < radix THEN Digits[n + 1]
    ELSE NatToString(n \div radix, radix) \o Digits[(n % radix) + 1]

\* `${n}` of an integer
NumberToString(n) == IF n < 0 THEN "-" \o NatToString(-n, 10) ELSE NatToString(n, 10)

RECURSIVE ConcatRange(_, _, _)
\* parts[lo] \o ... \o parts[hi]
ConcatRange(parts, lo, hi) ==
    IF lo > hi THEN ""
    ELSE IF lo = hi THEN parts[lo]
    ELSE LET mid == (lo + hi) \div 2
         IN ConcatRange(parts, lo, mid) \o ConcatRange(parts, mid + 1, hi)

\* the pieces a replace leaves of s, one for each character, put together
Concat(parts) == ConcatRange(parts, 1, Len(parts))

\* s.split(c).join(r) for a one-character c
ReplaceChar(s, c, r) ==
    Concat([i \in 1..Len(s) |->
              IF CharAt(s, i) = c THEN r ELSE CharAt(s, i)])

RECURSIVE Repeat(_, _)
Repeat(c, n) == IF n = 0 THEN "" ELSE c \o Repeat(c, n - 1)

\* JSON.stringify of a string: quoted, with quote, backslash and newline escaped
JSONQuote(s) ==
    LET esc(c) == IF c = "\"" THEN "\\\""
                  ELSE IF c = "\\" THEN "\\\\"
                  ELSE IF c = "\n" THEN "\\n"
                  ELSE c
    IN "\"" \o Concat([i \in 1..Len(s) |-> esc(CharAt(s, i))]) \o "\""

(***************************************************************************)
(* The type classifier.                                                    *)
(***************************************************************************)
TYPE_FOR_TO_STRING ==
    ("[object Array]" :> "Array") @@ ("[object Object]" :> "Object") @@
    ("[object String]" :> "String") @@ ("[object Date]" :> "Date") @@
    ("[object Number]" :> "Number") @@ ("[object Function]" :> "Function") @@
    ("[object RegExp]" :> "RegExp") @@ ("[object Boolean]" :> "Boolean") @@
    ("[object Null]" :> "Null") @@ ("[object Undefined]" :> "Undefined")

\* Map.get: undefined for a key the map does not hold
detectType(value) ==
    IF value.cls \in DOMAIN TYPE_FOR_TO_STRING
    THEN Str(TYPE_FOR_TO_STRING[value.cls])
    ELSE Undefined

\* value._bsontype: undefined on an object without the attribute
BsonTypeOf(value) ==
    IF "bsontype" \in DOMAIN value THEN Str(value.bsontype) ELSE Undefined

\* a property read on null or undefined raises a TypeError
PropertyReadThrows(value) == value.cls \in {"[object Null]", "[object Undefined]"}

ReadsMarkerAlways(t) == TRUE

\* the left operand of t === 'Object' && value._bsontype
ReadsMarker(t) == t = Str("Object")

getTypeDescriptorForValue(value) ==
    LET t == detectType(value)
        read == ReadsMarker(t)
        _bsontype == IF read THEN BsonTypeOf(value) ELSE Undefined
    IN [type |-> IF Truthy(_bsontype) THEN _bsontype ELSE t,
        isBSON |-> Truthy(_bsontype),
        markerRead |-> read,
        threw |-> read /\ PropertyReadThrows(value)]

(***************************************************************************)
(* The formatter table.  A BSON value carries the fields its formatter     *)
(* reads; what the BSON library computes (toString, toUUID, toISOString)   *)
(* is a field of the value, undefined where the library call raises.       *)
(***************************************************************************)
Code(v) ==
    IF ~v.scope.undef
    THEN "Code('" \o v.code \o "'," \o v.scope.s \o ")"
    ELSE "Code('" \o v.code \o "')"

ObjectID(v) == "ObjectId('" \o v.hex \o "')"

ObjectId(v) == "ObjectId('" \o v.hex \o "')"

IsUUIDSubtypeOnly(v) == v.sub_type = 4

\* subType === 4 && v.buffer.length === 16
IsUUID(v) == v.sub_type = 4 /\ v.length = 16

Binary(v) ==
    IF IsUUID(v)
    THEN LET uuidHex == IF ~v.uuid.undef THEN v.uuid.s ELSE v.hex
         IN "UUID('" \o uuidHex \o "')"
    ELSE "BinData(" \o NatToString(v.sub_type, 16) \o ", '" \o v.base64 \o "')"

DBRef(v) ==
    IF Truthy(v.db)
    THEN "DBRef('" \o v.namespace \o "', ObjectId('" \o v.oid \o "'), '" \o v.db.s \o "')"
    ELSE "DBRef('" \o v.namespace \o "', ObjectId('" \o v.oid \o "'))"

TimestampSwapped(v) ==
    "Timestamp({ t: " \o NumberToString(v.low) \o ", i: " \o NumberToString(v.high) \o " })"

Timestamp(v) ==
    "Timestamp({ t: " \o NumberToString(v.high) \o ", i: " \o NumberToString(v.low) \o " })"

Long(v) == "NumberLong(" \o v.str \o ")"

Decimal128(v) == "NumberDecimal('" \o v.str \o "')"

Double(v) == "Double('" \o v.str \o "')"

Int32(v) == "NumberInt('" \o v.str \o "')"

MaxKey(v) == "MaxKey()"

MinKey(v) == "MinKey()"

\* try toISOString(), catch: toString()
ISODate(v) ==
    IF ~v.iso.undef
    THEN "ISODate('" \o v.iso.s \o "')"
    ELSE "ISODate('" \o v.text \o "')"

Date(v) == ISODate(v)

RegExpFlagsUnordered(v) ==
    LET keep[i \in 0..Len(v.flags)] ==
            IF i = 0 THEN ""
            ELSE keep[i - 1] \o (IF CharAt(v.flags, i) \in {"g", "i", "m"}
                                 THEN CharAt(v.flags, i) ELSE "")
    IN keep[Len(v.flags)]

\* the three tests of v.global, v.ignoreCase and v.multiline, in this order
RegExpFlags(v) ==
    (IF Contains(v.flags, "g") THEN "g" ELSE "") \o
    (IF Contains(v.flags, "i") THEN "i" ELSE "") \o
    (IF Contains(v.flags, "m") THEN "m" ELSE "")

RegExp(v) ==
    LET o == RegExpFlags(v)
        hasOptions == o # ""
    IN "RegExp(" \o JSONQuote(v.source) \o (IF hasOptions THEN ", '" \o o \o "'" ELSE "") \o ")"

\* the own keys of the object literal BSON_TO_JS_STRING
OwnKeys ==
    {"Code", "ObjectID", "ObjectId", "Binary", "DBRef", "Timestamp", "Long",
     "Decimal128", "Double", "Int32", "MaxKey", "MinKey", "Date", "ISODate", "RegExp"}

\* the call toJs(value) of an own key
BSON_TO_JS_STRING(key, v) ==
    CASE key = "Code" -> Code(v)
      [] key = "ObjectID" -> ObjectID(v)
      [] key = "ObjectId" -> ObjectId(v)
      [] key = "Binary" -> Binary(v)
      [] key = "DBRef" -> DBRef(v)
      [] key = "Timestamp" -> Timestamp(v)
      [] key = "Long" -> Long(v)
      [] key = "Decimal128" -> Decimal128(v)
      [] key = "Double" -> Double(v)
      [] key = "Int32" -> Int32(v)
      [] key = "MaxKey" -> MaxKey(v)
      [] key = "MinKey" -> MinKey(v)
      [] key = "Date" -> Date(v)
      [] key = "ISODate" -> ISODate(v)
      [] key = "RegExp" -> RegExp(v)

(***************************************************************************)
(* BSON_TO_JS_STRING[t.type].  The table is an object literal, so a key it *)
(* does not own is looked up on Object.prototype; of the inherited          *)
(* properties the model keeps three: constructor (the function Object,     *)
(* which returns its argument), toString (called without a receiver it     *)
(* returns '[object Undefined]') and __proto__ (an object: truthy, and not *)
(* callable).  Every other key yields undefined.                           *)
(***************************************************************************)
InheritedKeys == {"constructor", "toString", "__proto__"}

\* the property key of t.type: String(undefined) for an undefined type
PropertyKey(type) == IF type.undef THEN "undefined" ELSE type.s

LookupBSONOnly(type) ==
    IF PropertyKey(type) \in OwnKeys \ {"Date", "RegExp"} THEN "formatter"
    ELSE IF PropertyKey(type) \in InheritedKeys THEN PropertyKey(type)
    ELSE "undefined"

Lookup(type) ==
    IF PropertyKey(type) \in OwnKeys THEN "formatter"
    ELSE IF PropertyKey(type) \in InheritedKeys THEN PropertyKey(type)
    ELSE "undefined"

(***************************************************************************)
(* The structural stringifier (javascript-stringify) and the callback      *)
(* toJSString hands to it.  A rendering is [kind, s, visits]: kind is      *)
(* "string" (s is the text), "object" (the callback returned a value that  *)
(* is no string) or "throw"; visits lists the nodes the callback saw.      *)
(***************************************************************************)
Rendered(s, visits) == [kind |-> "string", s |-> s, visits |-> visits]

NotAString(visits) == [kind |-> "object", s |-> "", visits |-> visits]

Raised(visits) == [kind |-> "throw", s |-> "TypeError", visits |-> visits]

\* a node the callback saw: its descriptor, what rendered it, and the text
Visit(value, t, by, out) == [node |-> value, desc |-> t, by |-> by, out |-> out]

\* Array.prototype.join
Join(parts, sep) ==
    LET acc[i \in 0..Len(parts)] ==
            IF i = 0 THEN ""
            ELSE acc[i - 1] \o (IF i > 1 THEN sep ELSE "") \o parts[i]
    IN acc[Len(parts)]

\* the visits of a sequence of renderings, in order
AllVisits(rs) ==
    LET acc[i \in 0..Len(rs)] == IF i = 0 THEN <<>> ELSE acc[i - 1] \o rs[i].visits
    IN acc[Len(rs)]

\* result.split('\n').join('\n' + space)
IndentLines(s, space) == ReplaceChar(s, "\n", "\n" \o space)

\* arrayToString of javascript-stringify, over the renderings of the items
arrayToString(rs, space) ==
    LET values == Join([i \in 1..Len(rs) |-> space \o IndentLines(rs[i].s, space)],
                       IF space # "" THEN ",\n" ELSE ",")
        eol == IF space # "" /\ values # "" THEN "\n" ELSE ""
    IN "[" \o eol \o values \o eol \o "]"

\* rawObjectToString of javascript-stringify, over the renderings of the values
objectToString(keys, rs, space) ==
    LET eol == IF space # "" THEN "\n" ELSE ""
        sp == IF space # "" THEN " " ELSE ""
        values == Join([i \in 1..Len(rs) |->
                          space \o keys[i] \o ":" \o sp \o IndentLines(rs[i].s, space)],
                       "," \o eol)
    IN IF values = "" THEN "{}" ELSE "{" \o eol \o values \o eol \o "}"

RECURSIVE replacer(_, _)
\* stringify(value) of the callback: the stringifier's own rendering of a
\* node, which calls the callback again on every item or property value
toJavascriptString(value, space) ==
    LET kids == IF value.cls = "[object Array]" THEN value.items
                ELSE IF value.cls = "[object Object]" THEN value.vals
                ELSE <<>>
        rs == [i \in 1..Len(kids) |-> replacer(kids[i], space)]
        visits == AllVisits(rs)
    IN IF \E i \in 1..Len(rs) : rs[i].kind # "string"
       \* a callback that raised, or whose result has no split method
       THEN Raised(visits)
       ELSE IF value.cls = "[object Array]" THEN Rendered(arrayToString(rs, space), visits)
       ELSE IF value.cls = "[object Object]"
            THEN Rendered(objectToString(value.keys, rs, space), visits)
       ELSE Rendered(value.lit, visits)

\* function (value, indent, stringify) of toJSString
replacer(value, space) ==
    LET t == getTypeDescriptorForValue(value)
        toJs == Lookup(t.type)
    IN IF t.threw THEN Raised(<<Visit(value, t, "none", "")>>)
       ELSE IF toJs = "undefined"
       THEN LET g == toJavascriptString(value, space)
                out == IF g.kind = "string" THEN g.s ELSE ""
            IN [g EXCEPT !.visits = <<Visit(value, t, "generic", out)>> \o g.visits]
       ELSE IF toJs = "formatter"
       THEN LET s == BSON_TO_JS_STRING(PropertyKey(t.type), value)
            IN Rendered(s, <<Visit(value, t, "formatter", s)>>)
       ELSE IF toJs = "constructor" THEN NotAString(<<Visit(value, t, "inherited", "")>>)
       ELSE IF toJs = "toString"
       THEN Rendered("[object Undefined]", <<Visit(value, t, "inherited", "[object Undefined]")>>)
       ELSE Raised(<<Visit(value, t, "inherited", "")>>)

\* typeof indent === 'string' ? indent : ' '.repeat(indent || 0)
SpaceOf(ind) == IF ind.isString THEN ind.s ELSE Repeat(" ", ind.n)

toJSString(obj, ind) == replacer(obj, SpaceOf(ind))

\* the character of s at i, "" outside s
At(s, i) == IF i >= 1 /\ i <= Len(s) THEN CharAt(s, i) ELSE ""

\* whether the space at i belongs to a match of / ?\n ? ?/g: every newline
\* starts or continues a match, which takes the space before the newline
\* and, greedily, up to two spaces after it
InBreak(s, i) ==
    \/ At(s, i + 1) = "\n"
    \/ At(s, i - 1) = "\n"
    \/ (At(s, i - 1) = " " /\ At(s, i - 2) = "\n")

\* s.replace(/ ?\n ? ?/g, by): each match holds exactly one newline
ReplaceBreaks(s, by) ==
    Concat([i \in 1..Len(s) |->
              IF CharAt(s, i) = "\n" THEN by
              ELSE IF CharAt(s, i) = " " /\ InBreak(s, i) THEN ""
              ELSE CharAt(s, i)])

\* s.replace(/ {2,}/g, ' '): of a run of spaces the first one stays
ReplaceSpaceRuns(s) ==
    Concat([i \in 1..Len(s) |->
              IF CharAt(s, i) = " " /\ At(s, i - 1) = " " THEN ""
              ELSE CharAt(s, i)])

\* .replace(/ ?\n ? ?/g, '').replace(/ {2,}/g, ' ')
Compact(s) == ReplaceSpaceRuns(ReplaceBreaks(s, ""))

(***************************************************************************)
(* The values the operations are called on.                                *)
(***************************************************************************)
Null == [cls |-> "[object Null]", lit |-> "null"]

UndefinedValue == [cls |-> "[object Undefined]", lit |-> "undefined"]

Number(lit) == [cls |-> "[object Number]", lit |-> lit]

String(lit) == [cls |-> "[object String]", lit |-> lit]

Boolean(lit) == [cls |-> "[object Boolean]", lit |-> lit]

\* a value whose internal class TYPE_FOR_TO_STRING does not hold
Symbol == [cls |-> "[object Symbol]", lit |-> "Symbol('s')"]

Array(items) == [cls |-> "[object Array]", items |-> items]

Object(keys, vals) == [cls |-> "[object Object]", keys |-> keys, vals |-> vals]

\* an object whose _bsontype the formatter table does not own
Tagged(tag, keys, vals) ==
    [cls |-> "[object Object]", bsontype |-> tag, keys |-> keys, vals |-> vals]

NewCode(code, scope) ==
    [cls |-> "[object Object]", bsontype |-> "Code", code |-> code, scope |-> scope]

ToLowerCase(s) ==
    LET lower(c) == CASE c = "A" -> "a" [] c = "B" -> "b" [] c = "C" -> "c"
                      [] c = "D" -> "d" [] c = "E" -> "e" [] c = "F" -> "f"
                      [] OTHER -> c
    IN Concat([i \in 1..Len(s) |-> lower(CharAt(s, i))])

\* new ObjectId(string) of a 24-character hex string; toString('hex') is lowercase
NewObjectId(tag, string) ==
    [cls |-> "[object Object]", bsontype |-> tag, hex |-> ToLowerCase(string)]

NewBinary(sub_type, length, uuid) ==
    [cls |-> "[object Object]", bsontype |-> "Binary", sub_type |-> sub_type,
     length |-> length, uuid |-> uuid,
     hex |-> Repeat("ab", length),
     base64 |-> CASE length = 0 -> ""
                  [] length = 15 -> "q6urq6urq6urq6urq6ur"
                  [] length = 16 -> "q6urq6urq6urq6urq6urqw=="
                  [] OTHER -> "q6urq6urq6urq6urq6urq6s="]

NewDBRef(namespace, oid, db) ==
    [cls |-> "[object Object]", bsontype |-> "DBRef", namespace |-> namespace,
     oid |-> oid, db |-> db]

NewTimestamp(high, low) ==
    [cls |-> "[object Object]", bsontype |-> "Timestamp", high |-> high, low |-> low]

\* Long, Decimal128, Double and Int32: str is what toString() returns
NewNumeric(tag, str) == [cls |-> "[object Object]", bsontype |-> tag, str |-> str]

NewKey(tag) == [cls |-> "[object Object]", bsontype |-> tag]

\* a native Date: iso is undefined where toISOString() raises a RangeError
NewDate(iso, text, lit) == [cls |-> "[object Date]", iso |-> iso, text |-> text, lit |-> lit]

\* a native RegExp built with the given flags argument
NewRegExp(source, flags) ==
    [cls |-> "[object RegExp]", source |-> source, flags |-> flags,
     lit |-> "/" \o source \o "/"]

SampleHex == "507f1f77bcf86cd799439011"

SubTypes == {0, 1, 3, 4, 5, 128, 255}

Lengths == {0, 15, 16, 17}

FlagStrings ==
    {"", "g", "i", "m", "gi", "ig", "gm", "mg", "im", "mi",
     "gim", "gmi", "igm", "img", "mgi", "mig", "s", "sg", "ymi"}

BinaryValues ==
    {NewBinary(st, n, Str("abababab-abab-abab-abab-abababababab")) : st \in SubTypes, n \in Lengths}
      \cup {NewBinary(4, 16, Undefined)}

DateValues ==
    {NewDate(Str("2020-01-01T00:00:00.000Z"), "Wed Jan 01 2020 00:00:00 GMT+0000", "new Date(1577836800000)"),
     NewDate(Undefined, "Invalid Date", "new Date(NaN)")}

RegExpValues == {NewRegExp(src, f) : src \in {"a+", "a\"b"}, f \in FlagStrings}

BSONValues ==
    {NewCode("f()", Undefined), NewCode("f()", Str("{}")), NewCode("x\ny", Str("{\"a\":1}"))}
      \cup {NewObjectId("ObjectId", SampleHex), NewObjectId("ObjectID", SampleHex)}
      \cup BinaryValues
      \cup {NewDBRef("coll", SampleHex, db) : db \in {Undefined, Str(""), Str("test")}}
      \cup {NewTimestamp(h, l) : h \in {0, 1700000000, -294967296}, l \in {0, 7, -1}}
      \cup {NewNumeric("Long", s) : s \in {"123", "-9223372036854775808"}}
      \cup {NewNumeric("Decimal128", "1.5"), NewNumeric("Double", "3.14"),
            NewNumeric("Int32", "42"), NewKey("MaxKey"), NewKey("MinKey")}

\* objects with a marker the table does not own, the empty marker included
TaggedValues ==
    {Tagged("BSONSymbol", <<"value">>, <<String("'s'")>>),
     Tagged("BSONRegExp", <<"pattern", "options">>, <<String("'a'"), String("'i'")>>),
     Tagged("constructor", <<"_bsontype">>, <<String("'constructor'")>>),
     Tagged("toString", <<"_bsontype">>, <<String("'toString'")>>),
     Tagged("__proto__", <<"_bsontype">>, <<String("'__proto__'")>>),
     Tagged("", <<"_bsontype">>, <<String("''")>>)}

\* an array that carries a _bsontype attribute of its own
TaggedArray == [cls |-> "[object Array]", bsontype |-> "MaxKey", items |-> <<>>]

PlainValues ==
    {Null, UndefinedValue, Number("1"), String("'x  y'"), Boolean("true"), Symbol,
     TaggedArray}

Leaves == PlainValues \cup BSONValues \cup DateValues \cup RegExpValues \cup TaggedValues

\* the leaves that nested documents are built from
NestedLeaves ==
    {Number("1"), String("'x  y'"), NewObjectId("ObjectId", SampleHex),
     NewDate(Undefined, "Invalid Date", "new Date(NaN)"),
     Tagged("BSONSymbol", <<"value">>, <<String("'s'")>>),
     Tagged("__proto__", <<"_bsontype">>, <<String("'__proto__'")>>)}

RECURSIVE Documents(_)
\* the arrays and plain objects nested at most d deep
Documents(d) ==
    IF d = 0 THEN {}
    ELSE LET kids == NestedLeaves \cup Documents(d - 1)
         IN {Array(<<>>), Object(<<>>, <<>>)}
              \cup {Array(<<k>>) : k \in kids}
              \cup {Object(<<"a">>, <<k>>) : k \in kids}
              \cup {Object(<<"a", "b">>, <<Number("1"), k>>) : k \in kids}

Values == Leaves \cup Documents(MaxDepth)

\* indent arguments: numbers, and the four-space string of toString
Number_(n) == [isString |-> FALSE, s |-> "", n |-> n]

Indents == {Number_(0), Number_(1), Number_(2)}

FourSpaces == [isString |-> TRUE, s |-> "    ", n |-> 0]

\* free texts: 24 hexadecimal characters in both cases, and near misses
Texts ==
    {SampleHex, "507F1F77BCF86CD799439011", "507f1F77bcf86cD799439011",
     "507f1f77bcf86cd79943901", "507f1f77bcf86cd7994390111",
     "507f1f77bcf86cd79943901g", "507f1f77bcf86cd799439011\n",
     " 507f1f77bcf86cd799439011", "{ not: valid", "{a: 1}", "NumberLong(123)", ""}

(***************************************************************************)
(* The external collaborators: the free-text parser and EJSON may return   *)
(* or raise; which one is theirs to decide.                                *)
(***************************************************************************)
NoValue == [cls |-> "none"]

Returned(v) == [kind |-> "value", s |-> "", v |-> v]

ReturnedString(s) == [kind |-> "string", s |-> s, v |-> NoValue]

ReturnedNull == [kind |-> "null", s |-> "", v |-> NoValue]

Threw(error) == [kind |-> "throw", s |-> error, v |-> NoValue]

NoResult == [kind |-> "none", s |-> "", v |-> NoValue]

ParserOutcomes ==
    {Returned(Object(<<"a">>, <<Number("1")>>)), Returned(NewNumeric("Long", "123")),
     Threw("SyntaxError"), Threw("Error")}

EJSONOutcomes == {ReturnedString("{\"$ejson\":1}"), Threw("BSONError")}

(***************************************************************************)
(* The state: the call in progress (op, arg), what it returned or raised   *)
(* (ret), what it did on the way (the calls of the parser, the ObjectIds   *)
(* constructed, the nodes the callback visited) and the console.           *)
(***************************************************************************)
VARIABLES pc, op, arg, ret, console, parserCalls, constructed, visits

vars == <<pc, op, arg, ret, console, parserCalls, constructed, visits>>

TextArg(string) == [text |-> string, value |-> NoValue, ind |-> Number_(0), receiver |-> ""]

ValueArg(value, ind, receiver) ==
    [text |-> "", value |-> value, ind |-> ind, receiver |-> receiver]

Init ==
    /\ pc = "idle"
    /\ op = "none"
    /\ arg = TextArg("")
    /\ ret = NoResult
    /\ console = <<>>
    /\ parserCalls = <<>>
    /\ constructed = <<>>
    /\ visits = <<>>

ParserCall(string, out) == [arg |-> string, out |-> out]

\* export const toBSON = parser
Call_toBSON(string, out) ==
    /\ pc = "idle"
    /\ pc' = "returned"
    /\ op' = "toBSON"
    /\ arg' = TextArg(string)
    /\ parserCalls' = <<ParserCall(string, out)>>
    /\ ret' = out
    /\ UNCHANGED <<console, constructed, visits>>

toSafeBSONPropagates(out) == out

\* try { return toBSON(string) } catch (error) { ...; return null }
toSafeBSONResult(out) == IF out.kind = "throw" THEN ReturnedNull ELSE out

toSafeBSONSilent(log, out) == log

\* catch (error) { console.error(error); ... }
toSafeBSONLog(log, out) == IF out.kind = "throw" THEN Append(log, out.s) ELSE log

Call_toSafeBSON(string, out) ==
    /\ pc = "idle"
    /\ out.kind = "throw" => Len(console) < MaxLog
    /\ pc' = "returned"
    /\ op' = "toSafeBSON"
    /\ arg' = TextArg(string)
    /\ parserCalls' = <<ParserCall(string, out)>>
    /\ console' = toSafeBSONLog(console, out)
    /\ ret' = toSafeBSONResult(out)
    /\ UNCHANGED <<constructed, visits>>

HexChars ==
    {"0", "1", "2", "3", "4", "5", "6", "7", "8", "9",
     "a", "b", "c", "d", "e", "f", "A", "B", "C", "D", "E", "F"}

IsObjectIdStringUnanchored(string) ==
    /\ Len(string) >= 24
    /\ \A i \in 1..24 : CharAt(string, i) \in HexChars

\* /^[\da-f]{24}$/i.test(string)
IsObjectIdString(string) ==
    /\ Len(string) = 24
    /\ \A i \in 1..24 : CharAt(string, i) \in HexChars

Call_parseObjectId(string, out) ==
    /\ pc = "idle"
    /\ pc' = "returned"
    /\ op' = "parseObjectId"
    /\ arg' = TextArg(string)
    /\ IF IsObjectIdString(string)
       THEN /\ constructed' = <<string>>
            /\ ret' = Returned(NewObjectId("ObjectId", string))
            /\ parserCalls' = <<>>
       ELSE /\ constructed' = <<>>
            /\ parserCalls' = <<ParserCall(string, out)>>
            /\ ret' = out
    /\ UNCHANGED <<console, visits>>

\* what a caller of toJSString gets from a rendering
ResultOf(value, r) ==
    IF r.kind = "string" THEN ReturnedString(r.s)
    ELSE IF r.kind = "object" THEN Returned(value)
    ELSE Threw(r.s)

Call_toJSString(obj, ind) ==
    /\ pc = "idle"
    /\ pc' = "returned"
    /\ op' = "toJSString"
    /\ arg' = ValueArg(obj, ind, "")
    /\ LET r == toJSString(obj, ind)
       IN /\ ret' = ResultOf(obj, r)
          /\ visits' = r.visits
    /\ UNCHANGED <<console, parserCalls, constructed>>

\* toString(doc): toJSString(doc, '    ')
Call_toString(doc) ==
    /\ pc = "idle"
    /\ pc' = "returned"
    /\ op' = "toString"
    /\ arg' = ValueArg(doc, FourSpaces, "")
    /\ LET r == toJSString(doc, FourSpaces)
       IN /\ ret' = ResultOf(doc, r)
          /\ visits' = r.visits
    /\ UNCHANGED <<console, parserCalls, constructed>>

\* toJsonString(doc): EJSON.stringify(EJSON.serialize(doc))
Call_toJsonString(doc, out) ==
    /\ pc = "idle"
    /\ pc' = "returned"
    /\ op' = "toJsonString"
    /\ arg' = ValueArg(doc, Number_(0), "")
    /\ ret' = out
    /\ UNCHANGED <<console, parserCalls, constructed, visits>>

\* the receivers stringify is called on: the module's exports, or none
Receivers == {"module", "undefined"}

\* this.toJSString(obj, 1)?.replace(...).replace(...)
stringify(receiver, obj) ==
    LET r == toJSString(obj, Number_(1))
    IN IF receiver = "undefined" THEN [kind |-> "throw", s |-> "TypeError", visits |-> <<>>]
       ELSE IF r.kind = "string" THEN Rendered(Compact(r.s), r.visits)
       \* a value that is no string has no replace method
       ELSE Raised(r.visits)

Call_stringify(receiver, obj) ==
    /\ pc = "idle"
    /\ pc' = "returned"
    /\ op' = "stringify"
    /\ arg' = ValueArg(obj, Number_(1), receiver)
    /\ LET r == stringify(receiver, obj)
       IN /\ ret' = ResultOf(obj, r)
          /\ visits' = r.visits
    /\ UNCHANGED <<console, parserCalls, constructed>>

\* the caller takes the result; the module keeps nothing of the call
Return ==
    /\ pc = "returned"
    /\ pc' = "idle"
    /\ op' = "none"
    /\ arg' = TextArg("")
    /\ ret' = NoResult
    /\ parserCalls' = <<>>
    /\ constructed' = <<>>
    /\ visits' = <<>>
    /\ UNCHANGED console

Next ==
    \/ \E string \in Texts, out \in ParserOutcomes : Call_toBSON(string, out)
    \/ \E string \in Texts, out \in ParserOutcomes : Call_toSafeBSON(string, out)
    \/ \E string \in Texts, out \in ParserOutcomes : Call_parseObjectId(string, out)
    \/ \E obj \in Values, ind \in Indents : Call_toJSString(obj, ind)
    \/ \E doc \in Values : Call_toString(doc)
    \/ \E doc \in Values, out \in EJSONOutcomes : Call_toJsonString(doc, out)
    \/ \E receiver \in Receivers, obj \in Values : Call_stringify(receiver, obj)
    \/ Return

Spec == Init /\ [][Next]_vars

(***************************************************************************)
(* The claims.                                                             *)
(***************************************************************************)
Last(s) == s[Len(s)]

\* C1: a call of toSafeBSON calls the parser once on its text; it returns what
\* the parser returned, and when the parser raised it appends that error to
\* the console and returns null; it never raises.
SafeParseReturnsOrLogsNull ==
    [][(pc' = "returned" /\ op' = "toSafeBSON") =>
         /\ Len(parserCalls') = 1
         /\ parserCalls'[1].arg = arg'.text
         /\ ret'.kind # "throw"
         /\ IF parserCalls'[1].out.kind = "throw"
            THEN /\ ret' = ReturnedNull
                 /\ console' = Append(console, parserCalls'[1].out.s)
            ELSE /\ ret' = parserCalls'[1].out
                 /\ console' = console]_vars

\* C1, witness: the parser raised a SyntaxError on invalid text, and the
\* call returned null with the error on the console
SafeParseRecovered ==
    /\ pc = "returned" /\ op = "toSafeBSON"
    /\ arg.text = "{ not: valid"
    /\ parserCalls[1].out = Threw("SyntaxError")
    /\ ret = ReturnedNull
    /\ Last(console) = "SyntaxError"

\* exactly 24 characters, each a decimal digit or a letter a-f of either case
Is24Hex(s) ==
    /\ Len(s) = 24
    /\ \A i \in 1..Len(s) :
         CharAt(s, i) \in {"0", "1", "2", "3", "4", "5", "6", "7", "8", "9",
                           "a", "b", "c", "d", "e", "f", "A", "B", "C", "D", "E", "F"}

\* C2: parseObjectId builds an ObjectId from a text of exactly 24 hexadecimal
\* characters without calling the parser; on every other text it calls the
\* parser once, with the text as given, and its result is the parser's.
ParseObjectIdDispatch ==
    (pc = "returned" /\ op = "parseObjectId") =>
        IF Is24Hex(arg.text)
        THEN /\ constructed = <<arg.text>>
             /\ parserCalls = <<>>
             /\ ret.kind = "value"
             /\ ret.v.bsontype = "ObjectId"
        ELSE /\ constructed = <<>>
             /\ Len(parserCalls) = 1
             /\ parserCalls[1].arg = arg.text
             /\ ret = parserCalls[1].out

\* C2, witness: 24 hexadecimal characters in upper case built an ObjectId
ParsedUpperCaseObjectId ==
    /\ pc = "returned" /\ op = "parseObjectId"
    /\ arg.text = "507F1F77BCF86CD799439011"
    /\ constructed = <<"507F1F77BCF86CD799439011">>
    /\ parserCalls = <<>>

\* the nodes the call in progress has visited
Visited == {visits[i] : i \in 1..Len(visits)}

\* a value carries a marker when its _bsontype is set to a non-empty tag
CarriesMarker(value) == "bsontype" \in DOMAIN value /\ value.bsontype # ""

CoarseTags ==
    {"Array", "Object", "String", "Date", "Number", "Function", "RegExp", "Boolean",
     "Null", "Undefined"}

\* the coarse tag of a value, from its internal class "[object <Tag>]"
CoarseTag(value) ==
    LET tag == SubSeq(value.cls, 9, Len(value.cls) - 1)
    IN IF tag \in CoarseTags THEN Str(tag) ELSE Undefined

\* C10: at every node the descriptor has isBSON = TRUE exactly when the coarse
\* tag is "Object" and the value carries a marker, and type is then the
\* marker; otherwise type is the coarse tag, undefined for an internal class
\* outside the table; the marker is read only on a value whose coarse tag is
\* "Object", and classifying never raises.
ClassifierDescriptor ==
    \A n \in Visited :
        LET coarse == CoarseTag(n.node)
            bson == coarse = Str("Object") /\ CarriesMarker(n.node)
        IN /\ n.desc.isBSON <=> bson
           /\ bson => n.desc.type = Str(n.node.bsontype)
           /\ ~bson => n.desc.type = coarse
           /\ coarse.undef => (n.desc.type.undef /\ ~n.desc.isBSON)
           /\ n.desc.markerRead => coarse = Str("Object")
           /\ ~n.desc.threw

\* C10, witness: an array that has a _bsontype attribute was classified by
\* its coarse tag, and the attribute was not read
ClassifiedEachKind ==
    \E n \in Visited :
        /\ pc = "returned"
        /\ n.node = TaggedArray
        /\ n.desc = [type |-> Str("Array"), isBSON |-> FALSE, markerRead |-> FALSE,
                     threw |-> FALSE]

\* C3: a node whose marker is a tag the formatter table does not own is
\* classified isBSON = TRUE and rendered by the structural stringifier: no
\* function found under that tag is called on it, and nothing is raised.
UnknownTagFallsThrough ==
    \A n \in Visited :
        (CoarseTag(n.node) = Str("Object") /\ CarriesMarker(n.node)
           /\ n.node.bsontype \notin OwnKeys)
        => (n.desc.isBSON /\ n.by = "generic" /\ ret.kind # "throw")

\* the literal grammar of the supported tags
Literal(v) ==
    LET tag == IF v.cls = "[object Date]" THEN "Date" ELSE v.bsontype
    IN CASE tag = "Code" ->
              IF v.scope.undef THEN "Code('" \o v.code \o "')"
              ELSE "Code('" \o v.code \o "'," \o v.scope.s \o ")"
         [] tag = "ObjectId" -> "ObjectId('" \o v.hex \o "')"
         [] tag = "DBRef" ->
              IF v.db.undef \/ v.db.s = ""
              THEN "DBRef('" \o v.namespace \o "', ObjectId('" \o v.oid \o "'))"
              ELSE "DBRef('" \o v.namespace \o "', ObjectId('" \o v.oid \o "'), '"
                     \o v.db.s \o "')"
         [] tag = "Timestamp" ->
              "Timestamp({ t: " \o ToString(v.high) \o ", i: " \o ToString(v.low) \o " })"
         [] tag = "Long" -> "NumberLong(" \o v.str \o ")"
         [] tag = "Decimal128" -> "NumberDecimal('" \o v.str \o "')"
         [] tag = "Double" -> "Double('" \o v.str \o "')"
         [] tag = "Int32" -> "NumberInt('" \o v.str \o "')"
         [] tag = "MaxKey" -> "MaxKey()"
         [] tag = "MinKey" -> "MinKey()"
         [] tag = "Date" ->
              "ISODate('" \o (IF v.iso.undef THEN v.text ELSE v.iso.s) \o "')"

SupportedTags ==
    {"Code", "ObjectId", "DBRef", "Timestamp", "Long", "Decimal128", "Double", "Int32",
     "MaxKey", "MinKey", "Date"}

\* C4: a node of a supported tag (Code, ObjectId, DBRef, Timestamp, Long,
\* Decimal128, Double, Int32, MaxKey, MinKey, Date) is rendered as the
\* literal of its tag.
FormatterGrammar ==
    \A n \in Visited :
        (PropertyKey(n.desc.type) \in SupportedTags /\ n.by # "none")
        => n.out = Literal(n.node)

\* C4, witness: a Timestamp whose high word is negative was rendered with
\* its two words in decimal
RenderedTimestampLiteral ==
    /\ pc = "returned" /\ op = "toJSString"
    /\ arg.value = NewTimestamp(-294967296, 7)
    /\ ret = ReturnedString("Timestamp({ t: -294967296, i: 7 })")

\* the subtypes of the model in lowercase hexadecimal, unpadded
HexOfSubType ==
    (0 :> "0") @@ (1 :> "1") @@ (3 :> "3") @@ (4 :> "4") @@ (5 :> "5") @@
    (128 :> "80") @@ (255 :> "ff")

\* C5: a Binary node is rendered UUID('<canonical UUID>') exactly when its
\* subtype is 4, it holds 16 bytes and the conversion succeeds; with subtype
\* 4 and 16 bytes whose conversion fails it is rendered UUID('<hex of the
\* bytes>'); with any other subtype or length it is rendered
\* BinData(<subtype in lowercase hex>, '<base64>').
BinaryRendering ==
    \A n \in Visited :
        (n.desc.type = Str("Binary")) =>
            LET v == n.node
                uuidShape == v.sub_type = 4 /\ v.length = 16
            IN /\ n.by = "formatter"
               /\ (uuidShape /\ ~v.uuid.undef) => n.out = "UUID('" \o v.uuid.s \o "')"
               /\ (uuidShape /\ v.uuid.undef) => n.out = "UUID('" \o v.hex \o "')"
               /\ ~uuidShape =>
                    n.out = "BinData(" \o HexOfSubType[v.sub_type] \o ", '" \o v.base64 \o "')"
               /\ (SubSeq(n.out, 1, 5) = "UUID(") <=> uuidShape

\* C5, witness: a 16-byte Binary of subtype 4 whose conversion to a UUID
\* raises was rendered with the hex of its bytes
RenderedMalformedUUID ==
    /\ pc = "returned" /\ op = "toString"
    /\ arg.value = NewBinary(4, 16, Undefined)
    /\ ret = ReturnedString("UUID('abababababababababababababababab')")

\* JSON quoting of the sources of the model
QuotedSource == ("a+" :> "\"a+\"") @@ ("a\"b" :> "\"a\\\"b\"")

\* the characters of a string
CharsOf(s) == {CharAt(s, i) : i \in 1..Len(s)}

\* C6: a RegExp node is rendered RegExp(<JSON-quoted source>) when none of
\* g, i, m is set, and RegExp(<JSON-quoted source>, '<flags>') otherwise,
\* <flags> holding exactly the set flags, once each, in the order g, i, m,
\* whatever the order they were given in.
RegExpRendering ==
    \A n \in Visited :
        (n.desc.type = Str("RegExp")) =>
            \E f \in {"", "g", "i", "m", "gi", "gm", "im", "gim"} :
                /\ CharsOf(f) = CharsOf(n.node.flags) \cap {"g", "i", "m"}
                /\ n.out = "RegExp(" \o QuotedSource[n.node.source]
                             \o (IF f = "" THEN "" ELSE ", '" \o f \o "'") \o ")"

\* C6, witness: a RegExp built with the flags 'mig' was rendered with 'gim'
RenderedReorderedFlags ==
    /\ pc = "returned" /\ op = "toJSString"
    /\ arg.value = NewRegExp("a\"b", "mig")
    /\ ret = ReturnedString("RegExp(\"a\\\"b\", 'gim')")

SingleSpaced(s) == ReplaceSpaceRuns(ReplaceBreaks(s, " "))

\* C8: stringify(obj) is the 1-space-indent rendering with every generated
\* line break and its indentation replaced by a single space; it holds no
\* newline and no two consecutive spaces.
CompactIsSingleSpaced ==
    (pc = "returned" /\ op = "stringify" /\ ret.kind = "string") =>
        /\ ret.s = SingleSpaced(toJSString(arg.value, Number_(1)).s)
        /\ ~Contains(ret.s, "\n")
        /\ \A i \in 1..(Len(ret.s) - 1) : SubSeq(ret.s, i, i + 1) # "  "

\* C9 as stated: a formatter renders a node only if the node is classified
\* isBSON = TRUE and the table has its tag, and every node classified
\* isBSON = FALSE is rendered by the structural stringifier.
FormatterOnlyOnBSON ==
    \A n \in Visited :
        /\ n.by = "formatter" => (n.desc.isBSON /\ PropertyKey(n.desc.type) \in OwnKeys)
        /\ ~n.desc.isBSON => n.by = "generic"

\* C9, amended: a formatter renders a node only if the table has an entry
\* for the node's descriptor type; a node classified isBSON = FALSE is
\* rendered by the Date or RegExp formatter when it is a native Date or
\* RegExp, and by the structural stringifier otherwise.
FormatterByDescriptorType ==
    \A n \in Visited :
        /\ n.by = "formatter" => PropertyKey(n.desc.type) \in OwnKeys
        /\ ~n.desc.isBSON =>
             IF n.node.cls \in {"[object Date]", "[object RegExp]"}
             THEN n.by = "formatter"
             ELSE n.by = "generic"

\* C9, witness: a native Date nested in a document, classified
\* isBSON = FALSE, was rendered by the Date formatter
NestedDateFormatted ==
    /\ pc = "returned"
    /\ Len(visits) > 1
    /\ \E i \in 2..Len(visits) :
         /\ visits[i].node.cls = "[object Date]"
         /\ ~visits[i].desc.isBSON
         /\ visits[i].by = "formatter"
         /\ visits[i].out = "ISODate('Invalid Date')"

=============================================================================
